---- MODULE Spec2Model ----
(***************************************************************************)
(* Model of automate.py: the batch script that reads the component         *)
(* catalogue static/components/data.json, validates every entry with the   *)
(* pydantic model CompModel (resolving its optional image), and writes one *)
(* directory content/components/<title>/ per entry.                        *)
(*                                                                         *)
(* A path is a sequence of path segments.  The file system maps every      *)
(* existing path, taken relative to the working directory, to its node.    *)
(* A title is the sequence of the "/"-separated pieces of the JSON key:    *)
(* the key "" has no piece, the key "F/G" has two.                         *)
(***************************************************************************)
EXTENDS Integers, Sequences, FiniteSets, TLC

VARIABLES fs, keys, i, pc, comp, errors, comp_model, exc, depth, before, hist

vars == <<fs, keys, i, pc, comp, errors, comp_model, exc, depth, before, hist>>

(* ------------------------------ bounds --------------------------------- *)

\* Largest number of entries of the catalogue.
MaxEntries == 2

\* Number of distinct identifiers uuid.uuid4() can return.
NumUuids == 2

\* Largest recursion depth of random_file that is explored.
MaxDepth == 2

(* ------------------------------ paths ---------------------------------- *)

None == <<>>

\* The working directory of the script, as Path.absolute() prepends it.
Cwd == <<"/", "site">>

\* path = Path("content/components")
path == <<"content", "components">>

\* tmpdir = Path("static/components/tmp")
tmpdir == <<"static", "components", "tmp">>

IsAbsolute(p) == Len(p) > 0 /\ p[1] = "/"

\* Path.absolute()
Absolute(p) == IF IsAbsolute(p) THEN p ELSE Cwd \o p

\* The key of the file system an operating-system call on p reaches.
Rel(p) == IF IsAbsolute(p) THEN SubSeq(p, Len(Cwd) + 1, Len(p)) ELSE p

\* Path(a) / b : pathlib drops the "." pieces of b.
Join(a, b) == a \o SelectSeq(b, LAMBDA s : s # ".")

\* Path(p).name : the last segment alone.
PathName(p) == IF Len(p) = 0 THEN <<>> ELSE <<p[Len(p)]>>

Parent(p) == SubSeq(p, 1, Len(p) - 1)

IsPrefix(p, q) == Len(p) <= Len(q) /\ SubSeq(q, 1, Len(p)) = p

(* --------------------------- file system ------------------------------- *)

NoText == [title |-> None, hasImageLine |-> FALSE, summaryImage |-> None]

DirNode == [kind |-> "dir", bytes |-> "", text |-> NoText]

BinaryFile(b) == [kind |-> "file", bytes |-> b, text |-> NoText]

TextFile(t) == [kind |-> "file", bytes |-> "", text |-> t]

IsDir(f, p) == Rel(p) \in DOMAIN f /\ f[Rel(p)].kind = "dir"

IsFile(f, p) == Rel(p) \in DOMAIN f /\ f[Rel(p)].kind = "file"

\* shutil.rmtree(p)
Rmtree(f, p) == [q \in {r \in DOMAIN f : ~IsPrefix(Rel(p), r)} |-> f[q]]

\* Path.mkdir() succeeds when nothing is at p and the parent is a directory.
CanMkdir(f, p) == Rel(p) \notin DOMAIN f /\ IsDir(f, Parent(Rel(p)))

Mkdir(f, p) == (Rel(p) :> DirNode) @@ f

\* open(p, "w") / open(p, "wb") followed by the writes: the file is replaced.
WriteFile(f, p, node) == (Rel(p) :> node) @@ f

\* shutil.copy(src, dstdir): the copy takes the name of src inside dstdir.
Copy(f, src, dstdir) == WriteFile(f, Join(dstdir, PathName(src)), f[Rel(src)])

\* The names directly inside directory p.
Children(f, p) == {q \in DOMAIN f : Len(q) = Len(Rel(p)) + 1 /\ IsPrefix(Rel(p), q)}

\* Everything at or below p.
Subtree(f, p) == [q \in {r \in DOMAIN f : IsPrefix(Rel(p), r)} |-> f[q]]

(* ------------------------------ inputs --------------------------------- *)

\* The catalogue keys tried: "", ".", "F", "G" and "F/G".
Titles == {<<>>, <<".">>, <<"F">>, <<"G">>, <<"F", "G">>}

\* Local images that exist, one that does not, and a remote image.
LocalImage == <<"static", "logo.png">>

IndexImage == <<"static", "index.md">>

MissingImage == <<"static", "gone.png">>

RemoteImage == <<"https:", "", "example.com", "pic.png">>

Images == {None, LocalImage, IndexImage, MissingImage, RemoteImage}

\* Values of the "tags" and "date" members of an entry.
TagLists == {<<"util">>, <<"bogus">>}

Dates == {"2021-03-04", "04/03/2021"}

\* What requests.get can come back with: a response, or an exception.
Responses == {[raised |-> FALSE, status_code |-> 200],
              [raised |-> FALSE, status_code |-> 404],
              [raised |-> TRUE, status_code |-> 0]}

\* Sequences of distinct keys, as json.load yields the keys of an object.
RECURSIVE KeySeqs(_)
KeySeqs(n) ==
    IF n = 0 THEN {<<>>}
    ELSE LET longer == {Append(s, t) : s \in KeySeqs(n - 1), t \in Titles}
         IN {s \in longer : \A a, b \in 1..Len(s) : a # b => s[a] # s[b]}

Catalogues == UNION {KeySeqs(n) : n \in 1..MaxEntries}

\* The name random_file builds from identifier u and a suffix.
FName(u, suffix) == <<ToString(u) \o suffix>>

\* What an earlier run may have left under content/components.
NoOutput == (<<"content">> :> DirNode) @@ (path :> DirNode)

OldOutput ==
    (Join(path, <<"F">>) :> DirNode)
    @@ (Join(path, <<"F", "old.png">>) :> BinaryFile("old"))
    @@ (Join(path, <<"F", "G">>) :> DirNode)
    @@ (Join(path, <<"F", "G", "notes.txt">>) :> BinaryFile("old"))
    @@ NoOutput

\* static/ with the catalogue and the local image.
Static ==
    (<<"static">> :> DirNode)
    @@ (<<"static", "components">> :> DirNode)
    @@ (<<"static", "components", "data.json">> :> BinaryFile("json"))
    @@ (LocalImage :> BinaryFile("logo"))
    @@ (IndexImage :> BinaryFile("index"))

\* Downloads an aborted earlier run left in the temporary directory.
Leftover(k) ==
    (tmpdir :> DirNode)
    @@ [p \in {Join(tmpdir, FName(u, ".png")) : u \in 1..k} |-> BinaryFile("old")]

InitialFs ==
    {out @@ Static @@ tmp :
        out \in {NoOutput, OldOutput},
        tmp \in {<<>>} \cup {Leftover(k) : k \in 0..NumUuids}}

(* ------------------------------ random_file ---------------------------- *)

\* fpath = Path(path) / (str(uuid.uuid4()) + suffix)
FPath(u, suffix, dir) == Join(dir, FName(u, suffix))

\* Faulty variant: the existence check is left out.
RetryNever(f, fpath, unique) == FALSE

\* random_file calls itself again when unique is set and fpath is a file.
Retry(f, fpath, unique) == unique /\ IsFile(f, fpath)

(* ------------------------------ CompModel ------------------------------ *)

TagEnum == {"forcefields", "assigners", "gromacs", "strategy", "tactic",
            "util", "simulators", "mmschema", "translators"}

\* List[TagEnum]: every tag is a value of the enumeration.
ValidTags(tags) == \A k \in 1..Len(tags) : tags[k] \in TagEnum

\* _valid_time: datetime.strptime(v, "%Y-%m-%d") parses the date.
ValidTime(d) == d \in {"2021-03-04"}

\* _valid_link: the assertion on the status code.
ValidLink(res) == res.status_code = 200

\* v.startswith("http")
StartsWithHttp(v) == Len(v) > 0 /\ v[1] \in {"http:", "https:"}

\* "." + v.split(".")[-1]
Suffix(v) == IF v[Len(v)] = "pic.png" THEN ".png" ELSE ".bin"

\* Faulty variant: the local path is not checked.
LocalImageUnchecked(f, pfile) == TRUE

\* assert pfile.is_file() on the local branch of _valid_image.
LocalImageOK(f, pfile) == IsFile(f, pfile)

NoComp == [title |-> None, tags |-> <<>>, date |-> "", image |-> None]

NoModel == [title |-> None, image |-> None]

\* Faulty variant: the collected errors are not raised.
OutcomeIgnoringErrors(errs) == "write"

\* CompModel(...) returns the record, or raises when a validator failed.
Outcome(errs) == IF errs = {} THEN "write" ELSE "aborted"

Raised(errs) == IF errs = {} THEN "none" ELSE "ValidationError"

\* Faulty variant: the image keeps its directories.
DictFullPath(m) == [title |-> m.title, image |-> m.image]

\* CompModel.dict(): the image is reduced to its file name.
Dict(m) ==
    [title |-> m.title,
     image |-> IF m.image # None THEN PathName(m.image) ELSE m.image]

(* ------------------------------ writer --------------------------------- *)

\* The front matter the loop formats from comp_model and data = comp_model.dict().
Text(m, data) ==
    IF m.image # None
    THEN [title |-> data.title, hasImageLine |-> TRUE, summaryImage |-> data.image]
    ELSE [title |-> data.title, hasImageLine |-> FALSE, summaryImage |-> None]

\* if cpath.is_dir(): shutil.rmtree(cpath)
Cleared(f, cpath) == IF IsDir(f, cpath) THEN Rmtree(f, cpath) ELSE f

\* Faulty variant: an existing directory is kept, as mkdir(exist_ok=True) would.
PreparedMerging(f, cpath) == IF IsDir(f, cpath) THEN f ELSE Mkdir(f, cpath)

\* ... followed by cpath.mkdir()
Prepared(f, cpath) == Mkdir(Cleared(f, cpath), cpath)

\* Faulty variant: the temporary directory is left in place.
CleanupNever(f) == f

\* if tmpdir.is_dir(): shutil.rmtree(tmpdir), the last statement of the loop body
Cleanup(f) == IF IsDir(f, tmpdir) THEN Rmtree(f, tmpdir) ELSE f

\* The loop body from cpath.mkdir() on, when no call raises.
Written(f, m) ==
    LET cpath == Join(path, m.title)
        made == Prepared(f, cpath)
        copied == IF m.image # None THEN Copy(made, m.image, cpath) ELSE made
    IN WriteFile(copied, Join(cpath, <<"index.md">>), TextFile(Text(m, Dict(m))))

(* ------------------------------ the run -------------------------------- *)

\* The state once data.json is loaded and content/components is found to be
\* a directory: the loop is about to construct the model of the first entry.
Init ==
    /\ fs \in InitialFs
    /\ keys \in Catalogues
    /\ i = 1
    /\ pc = "construct"
    /\ comp = NoComp
    /\ errors = {}
    /\ comp_model = NoModel
    /\ exc = "none"
    /\ depth = 0
    /\ before = fs
    /\ hist = <<>>

\* An uncaught exception ends the script.
Abort(name) ==
    /\ pc' = "aborted"
    /\ exc' = name
    /\ comp_model' = NoModel

\* The image validator is done with value v: every field has been validated,
\* and the constructor returns the model or raises the collected errors.
Finish(errs, v) ==
    /\ errors' = errs
    /\ pc' = Outcome(errs)
    /\ exc' = Raised(errs)
    /\ comp_model' = IF Outcome(errs) = "write"
                     THEN [title |-> comp.title, image |-> v]
                     ELSE NoModel

\* CompModel(title=comp_name, **comp) up to the image field: the link is
\* fetched, the tags and the date are checked, the failures are collected.
ValidateLink ==
    /\ pc = "construct"
    /\ \E tags \in TagLists, date \in Dates, image \in Images, res \in Responses :
          /\ comp' = [title |-> keys[i], tags |-> tags, date |-> date, image |-> image]
          /\ IF res.raised
             THEN Abort("ConnectionError") /\ errors' = {}
             ELSE /\ errors' = (IF ValidLink(res) THEN {} ELSE {"link"})
                               \cup (IF ValidTags(tags) THEN {} ELSE {"tags"})
                               \cup (IF ValidTime(date) THEN {} ELSE {"date"})
                  /\ pc' = "image"
                  /\ UNCHANGED <<exc, comp_model>>
    /\ UNCHANGED <<fs, keys, i, depth, before, hist>>

\* No image was given: the validator of the field is not called.
ImageSkipped ==
    /\ pc = "image"
    /\ comp.image = None
    /\ Finish(errors, None)
    /\ UNCHANGED <<fs, keys, i, comp, depth, before, hist>>

\* _valid_image on a local path: the failing assertion builds its message
\* from the undefined name p, so a NameError leaves the constructor.
ImageLocal ==
    /\ pc = "image"
    /\ comp.image # None
    /\ ~StartsWithHttp(comp.image)
    /\ IF LocalImageOK(fs, comp.image)
       THEN Finish(errors, comp.image)
       ELSE Abort("NameError") /\ UNCHANGED errors
    /\ UNCHANGED <<fs, keys, i, comp, depth, before, hist>>

\* _valid_image on a URL, up to the call of random_file.
ImageRequest ==
    /\ pc = "image"
    /\ StartsWithHttp(comp.image)
    /\ \E res \in Responses :
          IF res.raised
          THEN Abort("ConnectionError") /\ UNCHANGED <<fs, errors>>
          ELSE IF res.status_code # 200
          THEN Finish(errors \cup {"image"}, None) /\ UNCHANGED fs
          ELSE /\ fs' = IF IsDir(fs, tmpdir) THEN fs ELSE Mkdir(fs, tmpdir)
               /\ pc' = "random_file"
               /\ UNCHANGED <<errors, exc, comp_model>>
    /\ depth' = 0
    /\ UNCHANGED <<keys, i, comp, before, hist>>

\* random_file drew the name of an existing file and calls itself again.
RandomFileRetry ==
    /\ pc = "random_file"
    /\ depth < MaxDepth
    /\ \E u \in 1..NumUuids : Retry(fs, FPath(u, Suffix(comp.image), tmpdir), TRUE)
    /\ depth' = depth + 1
    /\ UNCHANGED <<fs, keys, i, pc, comp, errors, comp_model, exc, before, hist>>

\* random_file returns pfile; the download is written to it and the image
\* value becomes its absolute path.
RandomFileReturn ==
    /\ pc = "random_file"
    /\ \E u \in 1..NumUuids :
          LET pfile == FPath(u, Suffix(comp.image), tmpdir)
              v == Absolute(pfile)
          IN /\ ~Retry(fs, pfile, TRUE)
             /\ fs' = WriteFile(fs, v, BinaryFile("pic"))
             /\ Finish(errors, v)
    /\ UNCHANGED depth
    /\ UNCHANGED <<keys, i, comp, before, hist>>

\* cpath.mkdir() or shutil.copy raises: the script ends inside the loop body.
WriteRaises ==
    /\ pc = "write"
    /\ LET cpath == Join(path, comp_model.title)
           cleared == Cleared(fs, cpath)
       IN \/ /\ ~CanMkdir(cleared, cpath)
             /\ fs' = cleared
          \/ /\ CanMkdir(cleared, cpath)
             /\ comp_model.image # None
             /\ ~IsFile(Prepared(fs, cpath), comp_model.image)
             /\ fs' = Prepared(fs, cpath)
    /\ pc' = "aborted"
    /\ exc' = "OSError"
    /\ UNCHANGED <<keys, i, comp, errors, comp_model, depth, before, hist>>

\* The loop body after the constructor: the output directory is replaced,
\* the image copied, index.md written and the temporary directory removed.
WriteComp ==
    /\ pc = "write"
    /\ LET cpath == Join(path, comp_model.title)
       IN /\ CanMkdir(Cleared(fs, cpath), cpath)
          /\ comp_model.image # None => IsFile(Prepared(fs, cpath), comp_model.image)
    /\ fs' = Cleanup(Written(fs, comp_model))
    /\ before' = fs'
    /\ hist' = Append(hist, [title |-> comp_model.title,
                             supplied |-> comp.image,
                             image |-> comp_model.image,
                             text |-> Text(comp_model, Dict(comp_model))])
    /\ i' = i + 1
    /\ pc' = IF i = Len(keys) THEN "done" ELSE "construct"
    /\ comp' = NoComp
    /\ comp_model' = NoModel
    /\ errors' = {}
    /\ UNCHANGED <<keys, exc, depth>>

Next ==
    \/ ValidateLink
    \/ ImageSkipped
    \/ ImageLocal
    \/ ImageRequest
    \/ RandomFileRetry
    \/ RandomFileReturn
    \/ WriteRaises
    \/ WriteComp

Spec == Init /\ [][Next]_vars

\* uuid4 draws at random: a free name is not passed over for ever.
FairSpec == Spec /\ WF_vars(RandomFileReturn)

(* ------------------------------ properties ----------------------------- *)

\* The output directory of the entry with the given title.
CPath(title) == Join(path, title)

IndexOf(title) == Join(CPath(title), <<"index.md">>)

\* An exception left the constructor of line 137: validation failed.
ValidationFailed == exc \in {"ValidationError", "NameError", "ConnectionError"}

\* The entry under construction cannot be accepted: a member is invalid, the
\* link or the image was answered without success, or its local image is no file.
RecordInvalid ==
    /\ comp # NoComp
    /\ \/ ~ValidTags(comp.tags)
       \/ ~ValidTime(comp.date)
       \/ "link" \in errors
       \/ "image" \in errors
       \/ /\ comp.image # None
          /\ ~StartsWithHttp(comp.image)
          /\ ~IsFile(before, comp.image)

LocalImageMissing ==
    /\ comp # NoComp
    /\ comp.image # None
    /\ ~StartsWithHttp(comp.image)
    /\ ~IsFile(before, comp.image)

\* C1: when validation of the k-th entry fails the run is aborted at once,
\* and everything under content/ is exactly what the first k-1 entries left:
\* nothing is created, replaced or written for the k-th or a later entry, and
\* nothing written earlier is rolled back.
C1_AbortLeavesOutput ==
    ValidationFailed =>
        /\ pc = "aborted"
        /\ Len(hist) = i - 1
        /\ Subtree(fs, <<"content">>) = Subtree(before, <<"content">>)

C1_Witness ==
    /\ pc = "aborted"
    /\ exc = "ValidationError"
    /\ i = 2
    /\ hist[1].title = <<"G">>
    /\ IsFile(fs, IndexOf(<<"G">>))
    /\ comp.title = <<"F">>
    /\ ~IsFile(fs, IndexOf(<<"F">>))

\* C2: right after a component is processed its output directory holds
\* index.md, the copied image when there is one, and nothing else: whatever
\* the directory held before is gone.
C2_DirectoryReplaced ==
    (pc \in {"construct", "done"} /\ Len(hist) > 0) =>
        LET h == hist[Len(hist)]
            cpath == CPath(h.title)
            expected == {IndexOf(h.title)}
                        \cup (IF h.image # None
                              THEN {Join(cpath, PathName(h.image))}
                              ELSE {})
        IN /\ IsDir(fs, cpath)
           /\ DOMAIN Subtree(fs, cpath) = {cpath} \cup expected
           /\ \A q \in expected : IsFile(fs, q)
           /\ fs[IndexOf(h.title)] = TextFile(h.text)

C2_Witness ==
    /\ pc = "done"
    /\ Len(hist) = 2
    /\ hist[1].title = <<"F", "G">>
    /\ hist[2].title = <<"F">>
    /\ hist[2].image = LocalImage
    /\ Children(fs, CPath(<<"F">>)) = {IndexOf(<<"F">>), Join(CPath(<<"F">>), <<"logo.png">>)}

\* C3 as claimed: at the end of a run that completes, every key K of the
\* catalogue has content/components/K/index.md, with the line title: K.
C3_EveryKeyHasIndex ==
    pc = "done" =>
        \A k \in 1..Len(keys) :
            /\ IsFile(fs, IndexOf(keys[k]))
            /\ fs[IndexOf(keys[k])].text.title = keys[k]

\* C4 as claimed: at the end of a run that completes, the file named on the
\* summaryImage line of every component processed with an image is in the
\* output directory of that component.
C4_ImageStaysInDirectory ==
    pc = "done" =>
        \A k \in 1..Len(hist) :
            hist[k].image # None =>
                IsFile(fs, Join(CPath(hist[k].title), hist[k].text.summaryImage))

\* C5: the front matter has a summaryImage line exactly when the entry was
\* given an image; the line then holds the file name of the resolved image,
\* one path segment, and index.md on disk holds that front matter.
C5_SummaryImageLine ==
    \A k \in 1..Len(hist) :
        LET h == hist[k]
        IN /\ h.text.hasImageLine <=> (h.supplied # None)
           /\ h.text.hasImageLine =>
                 /\ Len(h.text.summaryImage) = 1
                 /\ h.text.summaryImage[1] = h.image[Len(h.image)]
           /\ ~h.text.hasImageLine => h.text.summaryImage = None
           /\ (k = Len(hist) /\ pc \in {"construct", "done"}) =>
                 fs[IndexOf(h.title)].text = h.text

C5_Witness ==
    /\ Len(hist) = 2
    /\ hist[1].supplied = RemoteImage
    /\ hist[1].text.hasImageLine
    /\ hist[1].text.summaryImage = <<"2.png">>
    /\ hist[2].supplied = None
    /\ ~hist[2].text.hasImageLine

TmpRemoved == IsDir(fs, tmpdir) /\ ~IsDir(fs', tmpdir)

C7_MissingImageIsValidationError ==
    (LocalImageMissing /\ pc \notin {"construct", "image"} /\ exc # "ConnectionError") =>
        /\ pc = "aborted"
        /\ exc = "ValidationError"
        /\ Subtree(fs, <<"content">>) = Subtree(before, <<"content">>)

\* C8 as claimed: a record that reaches the writer has a non-empty title.
C8_TitleNonEmpty == pc = "write" => comp_model.title # None

FreeName ==
    \E u \in 1..NumUuids : ~IsFile(fs, FPath(u, Suffix(comp.image), tmpdir))

\* C9: while random_file runs and when it returns, every file that exists
\* stays as it is: the download goes to a path where no file was, one new
\* file; and whenever a free name can be drawn, random_file returns.
C9_UniqueDownload ==
    /\ [][pc = "random_file" =>
            /\ \A q \in DOMAIN fs : q \in DOMAIN fs' /\ fs'[q] = fs[q]
            /\ pc' # "random_file" =>
                  Cardinality(DOMAIN fs') = Cardinality(DOMAIN fs) + 1]_vars
    /\ ((pc = "random_file" /\ FreeName) ~> (pc # "random_file"))

C9_Witness ==
    /\ pc = "write"
    /\ depth > 0
    /\ comp_model.image = Absolute(FPath(2, ".png", tmpdir))
    /\ IsFile(fs, FPath(1, ".png", tmpdir))
    /\ fs[FPath(1, ".png", tmpdir)] = BinaryFile("old")
    /\ fs[FPath(2, ".png", tmpdir)] = BinaryFile("pic")

\* C10: as long as an entry that cannot be accepted is the current one, and
\* after the run has ended on it, its output directory is what it was when
\* its turn began: the writer never gets to it.
C10_InvalidRecordLeavesDirectory ==
    RecordInvalid =>
        /\ pc # "write"
        /\ Subtree(fs, CPath(comp.title)) = Subtree(before, CPath(comp.title))

C10_Witness ==
    /\ pc = "aborted"
    /\ RecordInvalid
    /\ i = 1
    /\ comp.title = <<"F">>
    /\ IsFile(fs, Join(CPath(<<"F">>), <<"old.png">>))
    /\ fs[Join(CPath(<<"F">>), <<"old.png">>)] = BinaryFile("old")
    /\ IsFile(fs, Join(CPath(<<"F">>), <<"G", "notes.txt">>))

====
